---- MODULE Spec2Model ----
(***************************************************************************)
(* Heading-aware patch engine of mcp_obsidian (src/mcp_obsidian/obsidian.py)*)
(* A text is a sequence of one-character strings; a document is a text, and *)
(* its lines are what Python's str.split("\n") gives.  Line numbers are     *)
(* 0-based as in the code; sequence positions are 1-based.                  *)
(***************************************************************************)
EXTENDS Integers, Sequences, FiniteSets, TLC

NL == "\n"
SP == " "
HASH == "#"

(* ---------------------------------------------------------------------- *)
(* str primitives                                                          *)
(* ---------------------------------------------------------------------- *)

\* s[i:] and s[:j] with 0-based python slice bounds
Drop(s, n) == IF n >= Len(s) THEN <<>> ELSE SubSeq(s, n + 1, Len(s))
Take(s, n) == IF n <= 0 THEN <<>> ELSE SubSeq(s, 1, IF n > Len(s) THEN Len(s) ELSE n)

StartsWith(s, p) == Len(p) <= Len(s) /\ SubSeq(s, 1, Len(p)) = p
EndsWith(s, p) == Len(p) <= Len(s) /\ SubSeq(s, Len(s) - Len(p) + 1, Len(s)) = p

RECURSIVE LStripSet(_, _)
LStripSet(s, cs) ==
    IF s # <<>> /\ Head(s) \in cs THEN LStripSet(Tail(s), cs) ELSE s

RECURSIVE RStripSet(_, _)
RStripSet(s, cs) ==
    IF s # <<>> /\ s[Len(s)] \in cs THEN RStripSet(SubSeq(s, 1, Len(s) - 1), cs) ELSE s

StripSet(s, cs) == LStripSet(RStripSet(s, cs), cs)

\* characters str.strip() / \s treat as whitespace, among those of the model
Whitespace == {SP, NL}

\* s.split("\n")
RECURSIVE SplitNL(_)
SplitNL(s) ==
    IF \A i \in 1..Len(s) : s[i] # NL THEN <<s>>
    ELSE LET k == CHOOSE i \in 1..Len(s) : s[i] = NL /\ \A j \in 1..(i - 1) : s[j] # NL
         IN <<Take(s, k - 1)>> \o SplitNL(Drop(s, k))

\* "\n".join(lines)
RECURSIVE JoinNL(_)
JoinNL(ls) ==
    IF ls = <<>> THEN <<>>
    ELSE IF Len(ls) = 1 THEN ls[1]
    ELSE ls[1] \o <<NL>> \o JoinNL(Tail(ls))

\* s.split("::")
RECURSIVE SplitColons(_)
SplitColons(s) ==
    IF \A i \in 1..(Len(s) - 1) : ~(s[i] = ":" /\ s[i + 1] = ":") THEN <<s>>
    ELSE LET k == CHOOSE i \in 1..(Len(s) - 1) :
                    /\ s[i] = ":" /\ s[i + 1] = ":"
                    /\ \A j \in 1..(i - 1) : ~(s[j] = ":" /\ s[j + 1] = ":")
         IN <<Take(s, k - 1)>> \o SplitColons(Drop(s, k + 1))

\* list.insert(i, x) for 0 <= i
ListInsert(ls, i, x) == Take(ls, i) \o <<x>> \o Drop(ls, i)

\* "#" * n
RECURSIVE Hashes(_)
Hashes(n) == IF n <= 0 THEN <<>> ELSE <<HASH>> \o Hashes(n - 1)

(* ---------------------------------------------------------------------- *)
(* _parse_heading_structure                                                *)
(* ---------------------------------------------------------------------- *)

\* number of leading characters of s that are in cs
RECURSIVE RunLen(_, _)
RunLen(s, cs) == IF s # <<>> /\ Head(s) \in cs THEN 1 + RunLen(Tail(s), cs) ELSE 0

MaxHeadingLevel == 6

\* re.match(r"^(#{1,6})\s+(.+)$", line) on a line without "\n":
\* k hashes, w >= 1 whitespace, then a rest; (.+) needs one character, which
\* is the last whitespace when the rest is empty.
HeadingMatch(line) ==
    LET k == RunLen(line, {HASH})
        w == RunLen(Drop(line, k), Whitespace)
        rest == Drop(line, k + w)
    IN /\ k >= 1 /\ k <= MaxHeadingLevel
       /\ w >= 1
       /\ (rest # <<>> \/ w >= 2)

\* match.group(2).strip()
HeadingText(line) ==
    LET k == RunLen(line, {HASH})
        w == RunLen(Drop(line, k), Whitespace)
    IN StripSet(Drop(line, k + w), Whitespace)

HeadingLevel(line) == RunLen(line, {HASH})

\* headings of lines ls, whose first line has 0-based number base
RECURSIVE HeadingsOfLines(_, _)
HeadingsOfLines(ls, base) ==
    IF ls = <<>> THEN <<>>
    ELSE (IF HeadingMatch(Head(ls))
          THEN <<[level |-> HeadingLevel(Head(ls)),
                  text |-> HeadingText(Head(ls)),
                  line |-> base]>>
          ELSE <<>>) \o HeadingsOfLines(Tail(ls), base + 1)

parse_heading_structure(content) == HeadingsOfLines(SplitNL(content), 0)

(* ---------------------------------------------------------------------- *)
(* _find_heading_boundary, _find_heading_in_structure                      *)
(* ---------------------------------------------------------------------- *)

None == [none |-> TRUE]

\* "for h in hs: if P(h): return ...": the 1-based position of the first
\* TRUE of hits = <<P(hs[1]), ..., P(hs[n])>>, or 0 when the loop falls through
FirstHit(hits) ==
    IF \E i \in 1..Len(hits) : hits[i]
    THEN CHOOSE i \in 1..Len(hits) : hits[i] /\ \A j \in 1..(i - 1) : ~hits[j]
    ELSE 0

\* find_heading_boundary that takes only a strictly shallower heading as the end
find_heading_boundary_strict(lines, headings, target_line, target_level) ==
    LET Ends(h) == h.line > target_line /\ h.level < target_level
        i == FirstHit([i \in 1..Len(headings) |-> Ends(headings[i])])
    IN IF i # 0 THEN headings[i].line ELSE Len(lines)

find_heading_boundary(lines, headings, target_line, target_level) ==
    LET Ends(h) == h.line > target_line /\ h.level <= target_level
        i == FirstHit([i \in 1..Len(headings) |-> Ends(headings[i])])
    IN IF i # 0 THEN headings[i].line ELSE Len(lines)

\* ChildScan without the stop at the end of the parent's section
RECURSIVE ChildScanNoStop(_, _, _, _)
ChildScanNoStop(hs, parent_line, parent_level, child_target) ==
    IF hs = <<>> THEN None
    ELSE IF Head(hs).line <= parent_line
         THEN ChildScanNoStop(Tail(hs), parent_line, parent_level, child_target)
    ELSE IF Head(hs).text = child_target THEN Head(hs)
    ELSE ChildScanNoStop(Tail(hs), parent_line, parent_level, child_target)

\* the scan for the child: headings after the parent's line, in order,
\* stopping at the first of level <= parent_level
RECURSIVE ChildScan(_, _, _, _)
ChildScan(hs, parent_line, parent_level, child_target) ==
    IF hs = <<>> THEN None
    ELSE IF Head(hs).line <= parent_line
         THEN ChildScan(Tail(hs), parent_line, parent_level, child_target)
    ELSE IF Head(hs).level <= parent_level THEN None
    ELSE IF Head(hs).text = child_target THEN Head(hs)
    ELSE ChildScan(Tail(hs), parent_line, parent_level, child_target)

\* find_heading_in_structure that takes no notice of wiki-link brackets
find_heading_in_structure_unbracketed(headings, target) ==
    LET parts == SplitColons(target)
        Bare(t) == StripSet(t, {"[", "]"})
        simple == FirstHit([i \in 1..Len(headings) |-> Bare(headings[i].text) = Bare(target)])
        parent == FirstHit([i \in 1..Len(headings) |-> headings[i].text = parts[1]])
    IN IF Len(parts) = 1
       THEN (IF simple # 0 THEN headings[simple] ELSE None)
       ELSE IF parent = 0 THEN None
       ELSE ChildScan(headings, headings[parent].line, headings[parent].level,
                      parts[Len(parts)])

find_heading_in_structure(headings, target) ==
    LET parts == SplitColons(target)
        simple == FirstHit([i \in 1..Len(headings) |-> headings[i].text = target])
        parent == FirstHit([i \in 1..Len(headings) |-> headings[i].text = parts[1]])
    IN IF Len(parts) = 1
       THEN (IF simple # 0 THEN headings[simple] ELSE None)
       ELSE IF parent = 0 THEN None
       ELSE ChildScan(headings, headings[parent].line, headings[parent].level,
                      parts[Len(parts)])

(* ---------------------------------------------------------------------- *)
(* The edit of _patch_heading_content, between its read and its write      *)
(* ---------------------------------------------------------------------- *)

\* AppendLines that inserts one line too early
AppendLinesEarly(lines, boundary_line, content) ==
    LET c == IF StartsWith(content, <<NL>>) THEN content ELSE <<NL>> \o content
    IN ListInsert(lines, boundary_line - 1, RStripSet(c, {NL}))

\* operation == "append": lines.insert(boundary_line, content.rstrip("\n"))
\* after a leading "\n" has been put before content that lacks one
AppendLines(lines, boundary_line, content) ==
    LET c == IF StartsWith(content, <<NL>>) THEN content ELSE <<NL>> \o content
    IN ListInsert(lines, boundary_line, RStripSet(c, {NL}))

\* PrependLines that inserts above the heading line
PrependLinesAtHeading(lines, target_line, content) ==
    LET c == IF EndsWith(content, <<NL>>) THEN content ELSE content \o <<NL>>
    IN ListInsert(lines, target_line, StripSet(c, {NL}))

\* operation == "prepend": lines.insert(target_line + 1, content.strip("\n"))
PrependLines(lines, target_line, content) ==
    LET c == IF EndsWith(content, <<NL>>) THEN content ELSE content \o <<NL>>
    IN ListInsert(lines, target_line + 1, StripSet(c, {NL}))

\* ReplaceLines that loses the boundary line
ReplaceLinesPastBoundary(lines, target_line, boundary_line, content) ==
    Take(lines, target_line + 1)
        \o SplitNL(StripSet(content, {NL}))
        \o Drop(lines, boundary_line + 1)

\* ReplaceLines that splices the content in as given
ReplaceLinesUnstripped(lines, target_line, boundary_line, content) ==
    Take(lines, target_line + 1) \o SplitNL(content) \o Drop(lines, boundary_line)

\* ReplaceLines that leaves the old section below the content
ReplaceLinesKeepingSection(lines, target_line, boundary_line, content) ==
    Take(lines, target_line + 1)
        \o SplitNL(StripSet(content, {NL}))
        \o Drop(lines, target_line + 1)

\* ReplaceLines that replaces the heading line too
ReplaceLinesFromHeading(lines, target_line, boundary_line, content) ==
    Take(lines, target_line)
        \o SplitNL(StripSet(content, {NL}))
        \o Drop(lines, boundary_line)

\* operation == "replace"
ReplaceLines(lines, target_line, boundary_line, content) ==
    Take(lines, target_line + 1)
        \o SplitNL(StripSet(content, {NL}))
        \o Drop(lines, boundary_line)

KnownOperations == {"append", "prepend", "replace"}

\* new_content of _patch_heading_content for a heading found at
\* (target_line, target_level); the operation is one of KnownOperations
PatchedContent(current_content, operation, found, content) ==
    LET lines == SplitNL(current_content)
        headings == parse_heading_structure(current_content)
        boundary_line == find_heading_boundary(lines, headings, found.line, found.level)
    IN JoinNL(CASE operation = "append" -> AppendLines(lines, boundary_line, content)
                [] operation = "prepend" -> PrependLines(lines, found.line, content)
                [] operation = "replace" ->
                       ReplaceLines(lines, found.line, boundary_line, content))

(* ---------------------------------------------------------------------- *)
(* _parse_frontmatter, reduced to the one key the engine reads             *)
(* ---------------------------------------------------------------------- *)

Dashes == <<"-", "-", "-">>
TemplateKey == <<"t", "e", "m", "p", "l", "a", "t", "e">>
TemplatesDir == <<"T", "e", "m", "p", "l", "a", "t", "e", "s", "/">>
DotMd == <<".", "m", "d">>
NoPath == <<>>

\* re.search(r"\n---\s*\n", s): 0-based start of the leftmost match, or -1
ClosingFence(s) ==
    LET Hit(i) == /\ i + 3 <= Len(s)
                  /\ s[i] = NL
                  /\ SubSeq(s, i + 1, i + 3) = Dashes
                  /\ LET w == RunLen(Drop(s, i + 3), Whitespace)
                     IN \E j \in (i + 4)..(i + 3 + w) : s[j] = NL
    IN IF \E i \in 1..Len(s) : Hit(i)
       THEN (CHOOSE i \in 1..Len(s) : Hit(i) /\ \A j \in 1..(i - 1) : ~Hit(j)) - 1
       ELSE -1

\* key, _, value = line.partition(":") on a line that holds a ":"
ColonAt(line) == CHOOSE i \in 1..Len(line) : line[i] = ":" /\ \A j \in 1..(i - 1) : line[j] # ":"

\* the (key, value) pairs the loop stores, in order
RECURSIVE FrontmatterPairs(_)
FrontmatterPairs(ls) ==
    IF ls = <<>> THEN <<>>
    ELSE LET line == StripSet(Head(ls), Whitespace)
         IN (IF \E i \in 1..Len(line) : line[i] = ":"
             THEN LET key == StripSet(Take(line, ColonAt(line) - 1), Whitespace)
                      value == StripSet(StripSet(StripSet(Drop(line, ColonAt(line)),
                                   Whitespace), {"\""}), {"'"})
                  IN IF key # <<>> /\ value # <<>> THEN <<[key |-> key, value |-> value]>>
                     ELSE <<>>
             ELSE <<>>) \o FrontmatterPairs(Tail(ls))

parse_frontmatter(content) ==
    IF ~StartsWith(content, Dashes) THEN <<>>
    ELSE LET m == ClosingFence(Drop(content, 3))
         IN IF m = -1 THEN <<>>
            ELSE FrontmatterPairs(SplitNL(SubSeq(content, 5, m + 3)))

\* frontmatter["template"] (a later pair overwrites an earlier one), or NoPath
\* when the key is absent
FrontmatterTemplate(content) ==
    LET fm == parse_frontmatter(content)
        Is(i) == fm[i].key = TemplateKey
    IN IF \E i \in 1..Len(fm) : Is(i)
       THEN fm[CHOOSE i \in 1..Len(fm) : Is(i) /\ \A j \in (i + 1)..Len(fm) : ~Is(j)].value
       ELSE NoPath

\* TemplateFromFrontmatter that puts "Templates/" before every value
TemplateFromFrontmatterPrefixing(content) ==
    LET t == FrontmatterTemplate(content)
    IN IF t = NoPath THEN NoPath ELSE TemplatesDir \o t

\* step 1 of _get_template_for_file: the path the frontmatter names, or NoPath
TemplateFromFrontmatter(content) ==
    LET t == FrontmatterTemplate(content)
    IN IF t = NoPath THEN NoPath
       ELSE IF StartsWith(t, TemplatesDir) THEN t
       ELSE TemplatesDir \o t

\* step 2 of _get_template_for_file: f"Templates/{filepath.rsplit('/', 1)[0]}.md",
\* or NoPath when filepath holds no "/"
ConventionTemplate(filepath) ==
    IF \A i \in 1..Len(filepath) : filepath[i] # "/" THEN NoPath
    ELSE LET k == CHOOSE i \in 1..Len(filepath) :
                    filepath[i] = "/" /\ \A j \in (i + 1)..Len(filepath) : filepath[j] # "/"
         IN TemplatesDir \o Take(filepath, k - 1) \o DotMd

(* ---------------------------------------------------------------------- *)
(* _find_insertion_point, _insert_heading_at_position, the fallback        *)
(* ---------------------------------------------------------------------- *)

NoLine == -1

\* nearest template heading before index i (1-based) with level <= target_level,
\* as an index, or 0
\* PrevAnchor that takes the template heading just before, whatever its level
PrevAnchorAnyLevel(template_headings, i, target_level) == IF i < 1 THEN 0 ELSE i

RECURSIVE PrevAnchor(_, _, _)
PrevAnchor(template_headings, i, target_level) ==
    IF i < 1 THEN 0
    ELSE IF template_headings[i].level <= target_level THEN i
    ELSE PrevAnchor(template_headings, i - 1, target_level)

\* find_insertion_point whose forward anchor is the next template heading,
\* deeper ones included
find_insertion_point_next_any_level(current_headings, template_headings, target_heading, target_level) ==
    LET IsTarget(h) == h.text = target_heading /\ h.level = target_level
        template_index == FirstHit([i \in 1..Len(template_headings) |->
                                        IsTarget(template_headings[i])])
    IN IF template_index = 0 THEN NoLine
       ELSE
       LET after == Drop(template_headings, template_index)
           Bounds(h) == h.level <= MaxHeadingLevel
           nxt == FirstHit([i \in 1..Len(after) |-> Bounds(after[i])])
           IsNext(h) == nxt # 0 /\ h.text = after[nxt].text /\ h.level = after[nxt].level
           hit == FirstHit([i \in 1..Len(current_headings) |-> IsNext(current_headings[i])])
       IN IF hit # 0 THEN current_headings[hit].line
          ELSE
          LET p == PrevAnchor(template_headings, template_index - 1, target_level)
          IN IF p = 0 THEN NoLine
             ELSE
             LET IsPrev(h) == h.text = template_headings[p].text
                              /\ h.level = template_headings[p].level
                 c == FirstHit([i \in 1..Len(current_headings) |-> IsPrev(current_headings[i])])
             IN IF c = 0 THEN NoLine
                ELSE
                LET Ends(h) == h.line > current_headings[c].line
                               /\ h.level <= current_headings[c].level
                    e == FirstHit([i \in 1..Len(current_headings) |-> Ends(current_headings[i])])
                IN IF e # 0 THEN current_headings[e].line ELSE NoLine

\* find_insertion_point that looks the target up in the template by text alone
find_insertion_point_by_text(current_headings, template_headings, target_heading, target_level) ==
    LET IsTarget(h) == h.text = target_heading
        template_index == FirstHit([i \in 1..Len(template_headings) |->
                                        IsTarget(template_headings[i])])
    IN IF template_index = 0 THEN NoLine
       ELSE
       LET after == Drop(template_headings, template_index)
           Bounds(h) == h.level <= target_level
           nxt == FirstHit([i \in 1..Len(after) |-> Bounds(after[i])])
           IsNext(h) == nxt # 0 /\ h.text = after[nxt].text /\ h.level = after[nxt].level
           hit == FirstHit([i \in 1..Len(current_headings) |-> IsNext(current_headings[i])])
       IN IF hit # 0 THEN current_headings[hit].line
          ELSE
          LET p == PrevAnchor(template_headings, template_index - 1, target_level)
          IN IF p = 0 THEN NoLine
             ELSE
             LET IsPrev(h) == h.text = template_headings[p].text
                              /\ h.level = template_headings[p].level
                 c == FirstHit([i \in 1..Len(current_headings) |-> IsPrev(current_headings[i])])
             IN IF c = 0 THEN NoLine
                ELSE
                LET Ends(h) == h.line > current_headings[c].line
                               /\ h.level <= current_headings[c].level
                    e == FirstHit([i \in 1..Len(current_headings) |-> Ends(current_headings[i])])
                IN IF e # 0 THEN current_headings[e].line ELSE NoLine

\* find_insertion_point that, from the heading before the target, gives the
\* line below that heading instead of the line of the heading that ends it
find_insertion_point_below_anchor(current_headings, template_headings, target_heading, target_level) ==
    LET IsTarget(h) == h.text = target_heading /\ h.level = target_level
        template_index == FirstHit([i \in 1..Len(template_headings) |->
                                        IsTarget(template_headings[i])])
    IN IF template_index = 0 THEN NoLine
       ELSE
       LET after == Drop(template_headings, template_index)
           Bounds(h) == h.level <= target_level
           nxt == FirstHit([i \in 1..Len(after) |-> Bounds(after[i])])
           IsNext(h) == nxt # 0 /\ h.text = after[nxt].text /\ h.level = after[nxt].level
           hit == FirstHit([i \in 1..Len(current_headings) |-> IsNext(current_headings[i])])
       IN IF hit # 0 THEN current_headings[hit].line
          ELSE
          LET p == PrevAnchor(template_headings, template_index - 1, target_level)
          IN IF p = 0 THEN NoLine
             ELSE
             LET IsPrev(h) == h.text = template_headings[p].text
                              /\ h.level = template_headings[p].level
                 c == FirstHit([i \in 1..Len(current_headings) |-> IsPrev(current_headings[i])])
             IN IF c = 0 THEN NoLine
                ELSE
                LET Ends(h) == h.line > current_headings[c].line
                               /\ h.level <= current_headings[c].level
                    e == FirstHit([i \in 1..Len(current_headings) |-> Ends(current_headings[i])])
                IN IF e # 0 THEN current_headings[c].line + 1 ELSE NoLine

\* _find_insertion_point: the line to insert before, or NoLine for None
find_insertion_point(current_headings, template_headings, target_heading, target_level) ==
    LET IsTarget(h) == h.text = target_heading /\ h.level = target_level
        template_index == FirstHit([i \in 1..Len(template_headings) |->
                                        IsTarget(template_headings[i])])
    IN IF template_index = 0 THEN NoLine
       ELSE
       LET after == Drop(template_headings, template_index)
           Bounds(h) == h.level <= target_level
           nxt == FirstHit([i \in 1..Len(after) |-> Bounds(after[i])])
           IsNext(h) == nxt # 0 /\ h.text = after[nxt].text /\ h.level = after[nxt].level
           hit == FirstHit([i \in 1..Len(current_headings) |-> IsNext(current_headings[i])])
       IN IF hit # 0 THEN current_headings[hit].line
          ELSE
          LET p == PrevAnchor(template_headings, template_index - 1, target_level)
          IN IF p = 0 THEN NoLine
             ELSE
             LET IsPrev(h) == h.text = template_headings[p].text
                              /\ h.level = template_headings[p].level
                 c == FirstHit([i \in 1..Len(current_headings) |-> IsPrev(current_headings[i])])
             IN IF c = 0 THEN NoLine
                ELSE
                LET Ends(h) == h.line > current_headings[c].line
                               /\ h.level <= current_headings[c].level
                    e == FirstHit([i \in 1..Len(current_headings) |-> Ends(current_headings[i])])
                IN IF e # 0 THEN current_headings[e].line ELSE NoLine

\* heading.split("::") of _create_heading_and_append
heading_level(heading) == Len(SplitColons(heading)) + 1
final_heading(heading) == SplitColons(heading)[Len(SplitColons(heading))]

\* InsertedContent that splices the section in below the line given
InsertedContentBelow(content, heading, heading_content, line_number, level) ==
    LET new_section == <<NL>> \o Hashes(level) \o <<SP>> \o heading
                            \o heading_content \o <<NL>>
    IN JoinNL(ListInsert(SplitNL(content), line_number + 1, new_section))

\* new_content of _insert_heading_at_position
InsertedContent(content, heading, heading_content, line_number, level) ==
    LET new_section == <<NL>> \o Hashes(level) \o <<SP>> \o heading
                            \o heading_content \o <<NL>>
    IN JoinNL(ListInsert(SplitNL(content), line_number, new_section))

\* AppendedAtEnd that keeps the trailing whitespace of the document
AppendedAtEndUntrimmed(current_content, heading, content) ==
    current_content
        \o <<NL, NL>> \o Hashes(heading_level(heading)) \o <<SP>>
        \o final_heading(heading) \o content

\* new_content of the fallback of _create_heading_and_append
AppendedAtEnd(current_content, heading, content) ==
    RStripSet(current_content, Whitespace)
        \o <<NL, NL>> \o Hashes(heading_level(heading)) \o <<SP>>
        \o final_heading(heading) \o content

(* ---------------------------------------------------------------------- *)
(* State                                                                   *)
(* ---------------------------------------------------------------------- *)

VARIABLES
    vault,            \* the remote vault: path -> text, or Missing
    args,             \* the arguments of the patch_content call in progress
    pc,               \* where the call stands: the request it issues next
    current_content,  \* the text the last read of args.filepath returned
    found,            \* _patch_heading_content: the heading located, or None
    boundary_line,    \* _patch_heading_content: the located section's boundary
    template,         \* _create_heading_and_append: the template path in use
    new_content,      \* the body of the write about to be issued
    route,            \* which branch computed new_content
    log,              \* the requests issued so far, in order
    result,           \* what patch_content returned or raised
    external          \* the writes other clients of the vault made meanwhile

vars == <<vault, args, pc, current_content, found, boundary_line, template,
          new_content, route, log, result, external>>

Missing == <<"404">>

Request(method, path, ok) == [method |-> method, path |-> path, ok |-> ok]

Running == [status |-> "running", error |-> "", message |-> <<>>]
Success == [status |-> "ok", error |-> "", message |-> <<>>]
\* _safe_call: raise Exception(...) for a request that failed
TransportError == [status |-> "error", error |-> "transport", message |-> <<>>]
\* raise ValueError(f"Unknown operation: {operation}")
UnknownOperation(operation) ==
    [status |-> "error", error |-> "unknown_operation",
     message |-> <<"Unknown operation: ", operation>>]
\* HeadingNotFound with a message that leaves the target out
HeadingNotFoundUnnamed(target) ==
    [status |-> "error", error |-> "heading_not_found",
     message |-> <<"Error 40080: Heading not found">>]

\* raise Exception(f"Error 40080: Heading '{target}' not found")
HeadingNotFound(target) ==
    [status |-> "error", error |-> "heading_not_found",
     message |-> <<"Error 40080: Heading '">> \o target \o <<"' not found">>]

\* get_file_contents(path) can return a text
Readable(path) == path \in DOMAIN vault /\ vault[path] # Missing

(* ---------------------------------------------------------------------- *)
(* patch_content, one action per request and the code that follows it      *)
(* ---------------------------------------------------------------------- *)

\* the fallback of _create_heading_and_append is reached: its write is next
FallBack(content_read) ==
    /\ new_content' = AppendedAtEnd(content_read, args.target, args.content)
    /\ route' = "appended"
    /\ pc' = "put"

\* the template is known: its read is next, or the fallback when there is none
UseTemplate(path, content_read) ==
    IF path # NoPath
    THEN /\ template' = path
         /\ pc' = "read_template"
         /\ UNCHANGED <<new_content, route>>
    ELSE /\ template' = NoPath
         /\ FallBack(content_read)

\* patch_content with target_type "heading": _patch_heading_content reads the
\* file, locates the heading and edits the lines; its write is the next request
PatchHeadingRead ==
    /\ pc = "start"
    /\ args.target_type = "heading"
    /\ \/ /\ log' = Append(log, Request("GET", args.filepath, FALSE))
          /\ result' = TransportError
          /\ pc' = "done"
          /\ UNCHANGED <<current_content, found, boundary_line, new_content, route>>
       \/ /\ Readable(args.filepath)
          /\ log' = Append(log, Request("GET", args.filepath, TRUE))
          /\ LET content == vault[args.filepath]
                 lines == SplitNL(content)
                 headings == parse_heading_structure(content)
                 f == find_heading_in_structure(headings, args.target)
             IN /\ current_content' = content
                /\ found' = f
                /\ IF f = None
                   THEN /\ UNCHANGED <<boundary_line, new_content, route>>
                        /\ IF args.create_heading_if_missing
                           THEN pc' = "create" /\ UNCHANGED result
                           ELSE pc' = "done" /\ result' = HeadingNotFound(args.target)
                   ELSE /\ boundary_line' =
                               find_heading_boundary(lines, headings, f.line, f.level)
                        /\ IF args.operation \in KnownOperations
                           THEN /\ new_content' = PatchedContent(content, args.operation,
                                                                 f, args.content)
                                /\ route' = "located"
                                /\ pc' = "put"
                                /\ UNCHANGED result
                           ELSE /\ pc' = "done"
                                /\ result' = UnknownOperation(args.operation)
                                /\ UNCHANGED <<new_content, route>>
    /\ UNCHANGED <<vault, args, template, external>>

\* CreateRead that lets the frontmatter win over the template_path argument
CreateReadFrontmatterFirst ==
    /\ pc = "create"
    /\ \/ /\ log' = Append(log, Request("GET", args.filepath, FALSE))
          /\ result' = TransportError
          /\ pc' = "done"
          /\ UNCHANGED <<current_content, template, new_content, route>>
       \/ /\ Readable(args.filepath)
          /\ log' = Append(log, Request("GET", args.filepath, TRUE))
          /\ current_content' = vault[args.filepath]
          /\ UNCHANGED result
          /\ LET content == vault[args.filepath]
             IN IF ~args.use_template THEN UNCHANGED template /\ FallBack(content)
                ELSE IF TemplateFromFrontmatter(content) # NoPath
                     THEN UseTemplate(TemplateFromFrontmatter(content), content)
                ELSE IF args.template_path # NoPath
                     THEN UseTemplate(args.template_path, content)
                ELSE IF ConventionTemplate(args.filepath) # NoPath
                     THEN /\ template' = ConventionTemplate(args.filepath)
                          /\ pc' = "probe"
                          /\ UNCHANGED <<new_content, route>>
                ELSE UseTemplate(NoPath, content)
    /\ UNCHANGED <<vault, args, found, boundary_line, external>>

\* CreateRead that resolves the template whatever use_template is
CreateReadAlwaysTemplate ==
    /\ pc = "create"
    /\ \/ /\ log' = Append(log, Request("GET", args.filepath, FALSE))
          /\ result' = TransportError
          /\ pc' = "done"
          /\ UNCHANGED <<current_content, template, new_content, route>>
       \/ /\ Readable(args.filepath)
          /\ log' = Append(log, Request("GET", args.filepath, TRUE))
          /\ current_content' = vault[args.filepath]
          /\ UNCHANGED result
          /\ LET content == vault[args.filepath]
             IN IF args.template_path # NoPath
                     THEN UseTemplate(args.template_path, content)
                ELSE IF TemplateFromFrontmatter(content) # NoPath
                     THEN UseTemplate(TemplateFromFrontmatter(content), content)
                ELSE IF ConventionTemplate(args.filepath) # NoPath
                     THEN /\ template' = ConventionTemplate(args.filepath)
                          /\ pc' = "probe"
                          /\ UNCHANGED <<new_content, route>>
                ELSE UseTemplate(NoPath, content)
    /\ UNCHANGED <<vault, args, found, boundary_line, external>>

\* _create_heading_and_append reads the file again and resolves the template
CreateRead ==
    /\ pc = "create"
    /\ \/ /\ log' = Append(log, Request("GET", args.filepath, FALSE))
          /\ result' = TransportError
          /\ pc' = "done"
          /\ UNCHANGED <<current_content, template, new_content, route>>
       \/ /\ Readable(args.filepath)
          /\ log' = Append(log, Request("GET", args.filepath, TRUE))
          /\ current_content' = vault[args.filepath]
          /\ UNCHANGED result
          /\ LET content == vault[args.filepath]
             IN IF ~args.use_template THEN UNCHANGED template /\ FallBack(content)
                ELSE IF args.template_path # NoPath
                     THEN UseTemplate(args.template_path, content)
                ELSE IF TemplateFromFrontmatter(content) # NoPath
                     THEN UseTemplate(TemplateFromFrontmatter(content), content)
                ELSE IF ConventionTemplate(args.filepath) # NoPath
                     THEN /\ template' = ConventionTemplate(args.filepath)
                          /\ pc' = "probe"
                          /\ UNCHANGED <<new_content, route>>
                ELSE UseTemplate(NoPath, content)
    /\ UNCHANGED <<vault, args, found, boundary_line, external>>

\* _get_template_for_file probes the folder convention's template by reading it
ProbeConvention ==
    /\ pc = "probe"
    /\ \/ /\ log' = Append(log, Request("GET", template, FALSE))
          /\ UseTemplate(NoPath, current_content)
       \/ /\ Readable(template)
          /\ log' = Append(log, Request("GET", template, TRUE))
          /\ UseTemplate(template, current_content)
    /\ UNCHANGED <<vault, args, current_content, found, boundary_line, result, external>>

\* ReadTemplate that lets a failed read of the template end the call
ReadTemplateSurfacing ==
    /\ pc = "read_template"
    /\ \/ /\ log' = Append(log, Request("GET", template, FALSE))
          /\ pc' = "done"
          /\ result' = TransportError
          /\ UNCHANGED <<new_content, route>>
       \/ /\ Readable(template)
          /\ log' = Append(log, Request("GET", template, TRUE))
          /\ UNCHANGED result
          /\ LET insertion_point ==
                     find_insertion_point(parse_heading_structure(current_content),
                                          parse_heading_structure(vault[template]),
                                          final_heading(args.target),
                                          heading_level(args.target))
             IN IF insertion_point # NoLine
                THEN /\ new_content' =
                            InsertedContent(current_content, final_heading(args.target),
                                            args.content, insertion_point,
                                            heading_level(args.target))
                     /\ route' = "positioned"
                     /\ pc' = "put_positioned"
                ELSE FallBack(current_content)
    /\ UNCHANGED <<vault, args, current_content, found, boundary_line, template,
                   external>>

\* _create_heading_and_append reads the template and looks for the insertion
\* point; "except Exception: pass" sends a failed read to the fallback
ReadTemplate ==
    /\ pc = "read_template"
    /\ \/ /\ log' = Append(log, Request("GET", template, FALSE))
          /\ FallBack(current_content)
       \/ /\ Readable(template)
          /\ log' = Append(log, Request("GET", template, TRUE))
          /\ LET insertion_point ==
                     find_insertion_point(parse_heading_structure(current_content),
                                          parse_heading_structure(vault[template]),
                                          final_heading(args.target),
                                          heading_level(args.target))
             IN IF insertion_point # NoLine
                THEN /\ new_content' =
                            InsertedContent(current_content, final_heading(args.target),
                                            args.content, insertion_point,
                                            heading_level(args.target))
                     /\ route' = "positioned"
                     /\ pc' = "put_positioned"
                ELSE FallBack(current_content)
    /\ UNCHANGED <<vault, args, current_content, found, boundary_line, template, result,
                   external>>

\* the put_content of _insert_heading_at_position, inside the try of
\* _create_heading_and_append: "except Exception: pass" takes a failed write too
PutPositioned ==
    /\ pc = "put_positioned"
    /\ \/ /\ log' = Append(log, Request("PUT", args.filepath, TRUE))
          /\ vault' = [vault EXCEPT ![args.filepath] = new_content]
          /\ result' = Success
          /\ pc' = "done"
          /\ UNCHANGED <<new_content, route>>
       \/ /\ log' = Append(log, Request("PUT", args.filepath, FALSE))
          /\ FallBack(current_content)
          /\ UNCHANGED <<vault, result>>
    /\ UNCHANGED <<args, current_content, found, boundary_line, template, external>>

\* PutContent whose write leaves a document alone that changed since it was read
PutContentKeepsNewer ==
    /\ pc = "put"
    /\ \/ /\ log' = Append(log, Request("PUT", args.filepath, TRUE))
          /\ vault' = IF vault[args.filepath] = current_content
                      THEN [vault EXCEPT ![args.filepath] = new_content]
                      ELSE vault
          /\ result' = Success
       \/ /\ log' = Append(log, Request("PUT", args.filepath, FALSE))
          /\ result' = TransportError
          /\ UNCHANGED vault
    /\ pc' = "done"
    /\ UNCHANGED <<args, current_content, found, boundary_line, template,
                   new_content, route, external>>

\* the put_content that ends _patch_heading_content and the fallback
PutContent ==
    /\ pc = "put"
    /\ \/ /\ log' = Append(log, Request("PUT", args.filepath, TRUE))
          /\ vault' = [vault EXCEPT ![args.filepath] = new_content]
          /\ result' = Success
       \/ /\ log' = Append(log, Request("PUT", args.filepath, FALSE))
          /\ result' = TransportError
          /\ UNCHANGED vault
    /\ pc' = "done"
    /\ UNCHANGED <<args, current_content, found, boundary_line, template,
                   new_content, route, external>>

\* PatchRemote that reads the document before it sends the PATCH request
PatchRemoteAfterRead ==
    /\ pc = "start"
    /\ args.target_type # "heading"
    /\ \/ /\ log' = log \o <<Request("GET", args.filepath, TRUE),
                             Request("PATCH", args.filepath, TRUE)>>
          /\ result' = Success
       \/ /\ log' = Append(log, Request("PATCH", args.filepath, FALSE))
          /\ result' = TransportError
    /\ pc' = "done"
    /\ UNCHANGED <<vault, args, current_content, found, boundary_line, template,
                   new_content, route, external>>

\* patch_content with target_type "block" or "frontmatter": one PATCH request.
\* What the remote does with it is not code of this repository: the vault is
\* left as it is.
PatchRemote ==
    /\ pc = "start"
    /\ args.target_type # "heading"
    /\ \/ /\ log' = Append(log, Request("PATCH", args.filepath, TRUE))
          /\ result' = Success
       \/ /\ log' = Append(log, Request("PATCH", args.filepath, FALSE))
          /\ result' = TransportError
    /\ pc' = "done"
    /\ UNCHANGED <<vault, args, current_content, found, boundary_line, template,
                   new_content, route, external>>

MaxExternalWrites == 1

\* the lines another client of the vault adds to the document
ExternalMark == <<"e">>
ExternalLines == {ExternalMark, Hashes(2) \o <<SP, "B">>}

\* Another client of the vault writes the document while the call is between
\* two of its requests: put_content sends no revision and takes no lock, so
\* nothing keeps the remote document as the call read it.
ExternalWrite ==
    /\ pc \notin {"start", "done"}
    /\ Len(external) < MaxExternalWrites
    /\ Readable(args.filepath)
    /\ \E line \in ExternalLines :
          LET text == vault[args.filepath] \o <<NL>> \o line
          IN /\ vault' = [vault EXCEPT ![args.filepath] = text]
             /\ external' = Append(external, [text |-> text, at |-> Len(log)])
    /\ UNCHANGED <<args, pc, current_content, found, boundary_line, template,
                   new_content, route, log, result>>

(* ---------------------------------------------------------------------- *)
(* Inputs                                                                  *)
(* ---------------------------------------------------------------------- *)

MaxDocLines == 2

H(level, text) == Hashes(level) \o <<SP>> \o text

\* every document of 1..n lines drawn from vocab
DocsOf(vocab, n) == {JoinNL(ls) : ls \in UNION {[1..k -> vocab] : k \in 1..n}}

NoteRoot == <<"n">>
NoteInDir == <<"D", "/", "n">>
TplT == TemplatesDir \o <<"T">>
TplD == TemplatesDir \o <<"D">> \o DotMd
TplF == TemplatesDir \o <<"F">>

Frontmatter == Dashes \o <<NL>> \o TemplateKey \o <<":", SP, "F", NL>> \o Dashes \o <<NL>>

FrontmatterPrefixed ==
    Dashes \o <<NL>> \o TemplateKey \o <<":", SP>> \o TplF \o <<NL>> \o Dashes \o <<NL>>

SectionLines == {H(2, <<"A">>), H(2, <<"C">>), <<"x">>}
Notes == DocsOf(SectionLines, MaxDocLines)
             \cup {Frontmatter \o H(2, <<"A">>) \o <<NL>> \o H(2, <<"C">>)}
             \cup {H(2, <<"A">>) \o <<NL, "x", SP, NL, NL>>, <<"x", NL, SP>>}
             \cup {FrontmatterPrefixed \o H(2, <<"C">>)}
             \cup {H(2, <<SP>>) \o <<NL>> \o H(2, <<"A", SP>>)}

Targets == {<<"A">>, <<"B">>, <<"A", ":", ":", "B">>}
Contents == {<<"x">>, <<NL, "x">>}
Operations == {"append", "prepend", "replace", "delete"}

Templates ==
    { Missing,
      JoinNL(<<H(2, <<"A">>), H(2, <<"B">>), H(2, <<"C">>)>>),
      JoinNL(<<H(2, <<"A">>), H(3, <<"B">>), H(2, <<"C">>)>>) }

HeadingCalls ==
    [filepath : {NoteRoot, NoteInDir}, operation : Operations,
     target_type : {"heading"}, target : Targets, content : Contents,
     create_heading_if_missing : BOOLEAN, template_path : {NoPath, TplT},
     use_template : BOOLEAN]

RemoteCalls ==
    [filepath : {NoteRoot}, operation : {"append"},
     target_type : {"block", "frontmatter"}, target : {<<"A">>}, content : {<<"x">>},
     create_heading_if_missing : BOOLEAN, template_path : {NoPath, TplT},
     use_template : BOOLEAN]

\* the state in which a call of patch_content(a) starts on the given vault
Starts(a, note, t, d) ==
    /\ args = a
    /\ vault = (a.filepath :> note) @@ (TplT :> t) @@ (TplF :> t) @@ (TplD :> d)
    /\ pc = "start"
    /\ current_content = <<>>
    /\ found = None
    /\ boundary_line = NoLine
    /\ template = NoPath
    /\ new_content = <<>>
    /\ route = "none"
    /\ log = <<>>
    /\ result = Running
    /\ external = <<>>

Init ==
    \E a \in HeadingCalls \cup RemoteCalls, note \in Notes :
        \E t \in Templates, d \in {Missing, JoinNL(<<H(2, <<"B">>), H(2, <<"A">>)>>)} :
            Starts(a, note, t, d)

Next ==
    \/ PatchHeadingRead
    \/ CreateRead
    \/ ProbeConvention
    \/ ReadTemplate
    \/ PutPositioned
    \/ PutContent
    \/ PatchRemote

Spec == Init /\ [][Next]_vars

(* ---------------------------------------------------------------------- *)
(* The located path alone: _patch_heading_content from its read to its     *)
(* write, on wider documents, targets and contents                         *)
(* ---------------------------------------------------------------------- *)

MaxLocateLines == 4
MaxEditLines == 3

WikiLink(text) == <<"[", "[">> \o text \o <<"]", "]">>
LocateLines ==
    { H(1, <<"A">>), H(2, <<"A">>), H(2, <<"B">>), H(3, <<"B">>), <<"x">>,
      H(1, WikiLink(<<"a">>)) }
LocateTargets ==
    { <<"A">>, <<"B">>, <<"A", ":", ":", "B">>, <<"A", ":", ":", "x", ":", ":", "B">>,
      <<"B", ":", ":", "A">>, <<"A", ":", ":", "A">>,
      <<"a">>, WikiLink(<<"a">>), WikiLink(<<"A">>) }

EditLines == {H(2, <<"A">>), H(2, <<"B">>), H(3, <<"B">>), <<"x">>, <<"y">>, <<>>}
EditContents ==
    { <<"z">>, <<NL, "z">>, <<"z", NL>>, <<"z", NL, "w">>, <<>>, <<NL, NL>>,
      H(2, <<"B">>), H(4, <<"C">>) \o <<NL, "z">> }

LocatedCall(operation, target, content) ==
    [filepath |-> NoteRoot, operation |-> operation, target_type |-> "heading",
     target |-> target, content |-> content, create_heading_if_missing |-> FALSE,
     template_path |-> NoPath, use_template |-> TRUE]

InitLocate ==
    \E note \in DocsOf(LocateLines, MaxLocateLines), target \in LocateTargets :
        Starts(LocatedCall("append", target, <<"z">>), note, Missing, Missing)

InitEdit ==
    \E note \in DocsOf(EditLines, MaxEditLines), target \in Targets,
       operation \in KnownOperations, content \in EditContents :
        Starts(LocatedCall(operation, target, content), note, Missing, Missing)

NextLocated ==
    \/ PatchHeadingRead
    \/ PutContent

SpecLocate == InitLocate /\ [][NextLocated]_vars
SpecEdit == InitEdit /\ [][NextLocated]_vars

(* ---------------------------------------------------------------------- *)
(* The creation path with an explicit template, on wider documents and     *)
(* templates                                                               *)
(* ---------------------------------------------------------------------- *)

MaxCreateLines == 3

CreateLines ==
    { H(2, <<"A">>), H(2, <<"B">>), H(2, <<"C">>), H(3, <<"C">>), H(2, <<"D">>), <<"x">> }
CreateTargets == { <<"A">>, <<"B">>, <<"C">>, <<"D">>, <<"A", ":", ":", "C">> }
CreateTemplates ==
    { JoinNL(<<H(2, <<"A">>), H(2, <<"B">>), H(2, <<"C">>), H(2, <<"D">>)>>),
      JoinNL(<<H(2, <<"A">>), H(3, <<"C">>), H(2, <<"B">>), H(3, <<"D">>), H(2, <<"C">>)>>),
      JoinNL(<<H(1, <<"A">>), H(2, <<"B">>), H(3, <<"C">>), H(2, <<"D">>), H(2, <<"B">>)>>) }

CreateCall(target, content) ==
    [filepath |-> NoteRoot, operation |-> "append", target_type |-> "heading",
     target |-> target, content |-> content, create_heading_if_missing |-> TRUE,
     template_path |-> TplT, use_template |-> TRUE]

InitCreate ==
    \E note \in DocsOf(CreateLines, MaxCreateLines), target \in CreateTargets,
       content \in Contents, t \in CreateTemplates :
        Starts(CreateCall(target, content), note, t, Missing)

\* the template is named by the call: nothing is probed
NextCreate ==
    \/ PatchHeadingRead
    \/ CreateRead
    \/ ReadTemplate
    \/ PutPositioned
    \/ PutContent

SpecCreate == InitCreate /\ [][NextCreate]_vars

(* ---------------------------------------------------------------------- *)
(* patch_content of a heading on a vault that another client writes too    *)
(* ---------------------------------------------------------------------- *)

ExternalCalls ==
    [filepath : {NoteRoot}, operation : KnownOperations,
     target_type : {"heading"}, target : Targets, content : Contents,
     create_heading_if_missing : BOOLEAN, template_path : {NoPath, TplT},
     use_template : {TRUE}]

InitExternal ==
    \E a \in ExternalCalls, note \in Notes, t \in Templates :
        Starts(a, note, t, Missing)

\* the file is in no folder, so the folder convention is never probed
NextExternal ==
    \/ PatchHeadingRead
    \/ CreateRead
    \/ ReadTemplate
    \/ PutPositioned
    \/ PutContent
    \/ ExternalWrite

SpecExternal == InitExternal /\ [][NextExternal]_vars

(* ---------------------------------------------------------------------- *)
(* Properties                                                              *)
(* ---------------------------------------------------------------------- *)

Range(q) == {q[i] : i \in 1..Len(q)}
Min(S) == CHOOSE x \in S : \A y \in S : x <= y
Puts == {i \in 1..Len(log) : log[i].method = "PUT"}
Contains(s, t) == \E i \in 1..(Len(s) - Len(t) + 1) : SubSeq(s, i, i + Len(t) - 1) = t
Segments == SplitColons(args.target)
ReadHeadings == parse_heading_structure(current_content)
ReadLines == SplitNL(current_content)
WrittenLines == SplitNL(new_content)
FirstReadDone == pc # "start" /\ args.target_type = "heading" /\ log[1].ok

\* C1: a patch of a heading issues at most one write, a failed write is not
\* followed by another, and a patch that succeeds has issued exactly one.
C1_AtMostOneWrite ==
    args.target_type = "heading" =>
        /\ Cardinality(Puts) <= 1
        /\ (pc = "done" /\ result.status = "ok" => Cardinality(Puts) = 1)

\* C2: with an operation outside append, prepend, replace a patch of a heading
\* issues no write and ends in an error, whether or not the heading exists and
\* whatever create_heading_if_missing is.
C2_UnknownOperationRejected ==
    args.target_type = "heading" /\ args.operation \notin KnownOperations =>
        /\ Puts = {}
        /\ (pc = "done" => result.status = "error")

\* C3: when the heading is not in the document read and
\* create_heading_if_missing is false, the patch has ended with the
\* heading-not-found error whose message names the target, its one request
\* was the read of the document, and the remote document is as it was read.
C3_MissingHeadingRejected ==
    ( /\ FirstReadDone
      /\ find_heading_in_structure(ReadHeadings, args.target) = None
      /\ ~args.create_heading_if_missing ) =>
        /\ pc = "done"
        /\ result.status = "error"
        /\ result.error = "heading_not_found"
        /\ Contains(result.message, args.target)
        /\ log = <<Request("GET", args.filepath, TRUE)>>
        /\ vault[args.filepath] = current_content

C3_Witness ==
    /\ pc = "done"
    /\ result.error = "heading_not_found"
    /\ ~args.create_heading_if_missing
    /\ ReadHeadings # <<>>

\* C4: after a successful creation for a target of n segments, the document
\* written holds a heading of level n + 1 whose text is the last segment.
C4_CreatedHeadingParses ==
    pc = "done" /\ result.status = "ok" /\ route \in {"appended", "positioned"} =>
        \E h \in Range(parse_heading_structure(vault[args.filepath])) :
            /\ h.level = Len(Segments) + 1
            /\ h.text = Segments[Len(Segments)]

\* C5: a patch in which the read of the target document or a write failed
\* ends in an error; only failed template reads are absorbed.
C5_TransportFailureSurfaces ==
    pc = "done" /\ args.target_type = "heading" =>
        ( (\E i \in 1..Len(log) :
              ~log[i].ok /\ (log[i].method = "PUT" \/ log[i].path = args.filepath))
          => result.status = "error" )

\* C6: for a target A::...::Z the heading located is the first one named Z
\* strictly after the first heading named A and strictly before the first
\* later heading of level <= A's; there is none exactly when there is no A or
\* no such Z; what is located is deeper than A; and the segments between A
\* and Z do not change the result.
C6_NestedLocate ==
    FirstReadDone /\ Len(Segments) > 1 =>
        LET hs == ReadHeadings
            A == Segments[1]
            Z == Segments[Len(Segments)]
            Parents == {i \in 1..Len(hs) : hs[i].text = A}
        IN /\ found = find_heading_in_structure(hs, A \o <<":", ":">> \o Z)
           /\ IF Parents = {} THEN found = None
              ELSE LET p == hs[Min(Parents)]
                       Ends == {h.line : h \in {g \in Range(hs) :
                                    g.line > p.line /\ g.level <= p.level}}
                       Children == {i \in 1..Len(hs) :
                                      /\ hs[i].text = Z
                                      /\ hs[i].line > p.line
                                      /\ \A e \in Ends : hs[i].line < e}
                   IN IF Children = {} THEN found = None
                      ELSE found = hs[Min(Children)] /\ found.level > p.level

\* a child is located although a heading of the same name also follows the
\* end of the parent's section
C6_Witness ==
    /\ FirstReadDone
    /\ Len(Segments) > 2
    /\ found # None
    /\ \E h \in Range(ReadHeadings) :
          /\ h.text = found.text
          /\ h.line > found.line
          /\ \E e \in Range(ReadHeadings) :
                e.line > found.line /\ e.line < h.line /\ e.level < found.level

\* the boundary of a heading of level L at line i, stated on the set of headings
SectionEnd(lines, hs, i, L) ==
    LET Later == {h.line : h \in {g \in Range(hs) : g.line > i /\ g.level <= L}}
    IN IF Later = {} THEN Len(lines) ELSE Min(Later)

\* C7: for every heading of the document, at line i with level L, the boundary
\* is the line of the first later heading of level <= L, or the line count when
\* there is none; the boundary stored for the located heading is that one.
C7_Boundary ==
    LET lines == SplitNL(vault[args.filepath])
        hs == parse_heading_structure(vault[args.filepath])
    IN /\ \A h \in Range(hs) :
            find_heading_boundary(lines, hs, h.line, h.level)
                = SectionEnd(lines, hs, h.line, h.level)
       /\ (FirstReadDone /\ found # None =>
              boundary_line = SectionEnd(ReadLines, ReadHeadings, found.line, found.level))

\* a deeper heading lies inside the located section, which a later heading ends
C7_Witness ==
    /\ FirstReadDone
    /\ found # None
    /\ boundary_line < Len(ReadLines)
    /\ \E h \in Range(ReadHeadings) :
          h.line > found.line /\ h.line < boundary_line /\ h.level > found.level

Replaced == pc = "done" /\ route = "located" /\ args.operation = "replace"

\* C8 as stated: the document written by replace is lines[0..t], the lines of
\* the content, lines[b..].
C8_ReplaceSplicesContentLines ==
    Replaced =>
        WrittenLines = Take(ReadLines, found.line + 1)
                           \o SplitNL(args.content)
                           \o Drop(ReadLines, boundary_line)

\* C8 amended: the document written by replace is lines[0..t], then the lines
\* of the content without its leading and trailing newlines, then lines[b..]:
\* the lines up to the heading and from the boundary on are kept in order and
\* the old section's lines t+1..b-1 are not carried over.
C8_Replace ==
    Replaced =>
        LET t == found.line
            b == boundary_line
            c == SplitNL(StripSet(args.content, {NL}))
            n == Len(ReadLines)
        IN /\ Len(WrittenLines) = (t + 1) + Len(c) + (n - b)
           /\ \A i \in 1..(t + 1) : WrittenLines[i] = ReadLines[i]
           /\ \A i \in 1..Len(c) : WrittenLines[t + 1 + i] = c[i]
           /\ \A i \in 1..(n - b) : WrittenLines[t + 1 + Len(c) + i] = ReadLines[b + i]

\* a replace of a section with lines of its own, followed by another section
C8_Witness ==
    /\ Replaced
    /\ result.status = "ok"
    /\ boundary_line > found.line + 1
    /\ boundary_line < Len(ReadLines)
    /\ Len(SplitNL(args.content)) > 1

\* the section of target in doc: the lines strictly between the heading and
\* its boundary
SectionOf(doc, target) ==
    LET ls == SplitNL(doc)
        hs == parse_heading_structure(doc)
        f == find_heading_in_structure(hs, target)
    IN SubSeq(ls, f.line + 2, find_heading_boundary(ls, hs, f.line, f.level))

Relocated == find_heading_in_structure(parse_heading_structure(vault[args.filepath]),
                                       args.target)

ReplaceWritten == Replaced /\ result.status = "ok"

\* C9 as stated: after a replace the target's section in the written document
\* is the supplied content, whatever the content.
C9_SectionIsContent ==
    ReplaceWritten =>
        /\ Relocated # None
        /\ JoinNL(SectionOf(vault[args.filepath], args.target)) = args.content

\* content with no heading line of level <= L
NoHeadingUpTo(content, L) ==
    \A h \in Range(parse_heading_structure(content)) : h.level > L

\* C9 amended: after a replace the target resolves to the same line, and when
\* the content holds no heading line of the target's level or shallower, the
\* target's section in the written document is the content without its
\* leading and trailing newlines.
C9_SectionIsStrippedContent ==
    ReplaceWritten =>
        /\ Relocated # None
        /\ Relocated.line = found.line
        /\ (NoHeadingUpTo(args.content, found.level) =>
               JoinNL(SectionOf(vault[args.filepath], args.target))
                   = StripSet(args.content, {NL}))

C9_Witness ==
    /\ ReplaceWritten
    /\ NoHeadingUpTo(args.content, found.level)
    /\ parse_heading_structure(args.content) # <<>>
    /\ boundary_line > found.line + 1
    /\ boundary_line < Len(ReadLines)

Appended == pc = "done" /\ route = "located" /\ args.operation = "append"

\* C10: append writes the lines read with k >= 1 lines inserted at index b:
\* lines[0..b) come first and lines[b..] last, both unchanged, and the
\* inserted lines end with the content (less its trailing newlines); when
\* b is the line count the document read is a prefix of the one written,
\* which ends with the content.
C10_AppendInsertsAtBoundary ==
    Appended =>
        LET b == boundary_line
            n == Len(ReadLines)
            k == Len(WrittenLines) - n
            c == RStripSet(args.content, {NL})
        IN /\ k >= 1
           /\ \A i \in 1..b : WrittenLines[i] = ReadLines[i]
           /\ \A i \in (b + 1)..n : WrittenLines[i + k] = ReadLines[i]
           /\ EndsWith(JoinNL(SubSeq(WrittenLines, b + 1, b + k)), c)
           /\ (b = n => StartsWith(new_content, current_content)
                        /\ EndsWith(new_content, c))

\* an append to the last section of the document, which has a sub-section
C10_Witness ==
    /\ Appended
    /\ result.status = "ok"
    /\ boundary_line = Len(ReadLines)
    /\ args.content # <<>>
    /\ \E h \in Range(ReadHeadings) : h.line > found.line /\ h.level > found.level

Prepended == pc = "done" /\ route = "located" /\ args.operation = "prepend"

\* C11: prepend writes the lines read with k >= 1 lines inserted at index
\* t + 1: lines[0..t] come first, unchanged, then the lines of the content
\* (less its enclosing newlines), then lines[t+1..], unchanged and in order,
\* so that the content stands before every line the section had.
C11_PrependInsertsAfterHeading ==
    Prepended =>
        LET t == found.line
            n == Len(ReadLines)
            c == SplitNL(StripSet(args.content, {NL}))
            k == Len(c)
        IN /\ k >= 1
           /\ Len(WrittenLines) = n + k
           /\ \A i \in 1..(t + 1) : WrittenLines[i] = ReadLines[i]
           /\ \A i \in 1..k : WrittenLines[t + 1 + i] = c[i]
           /\ \A i \in (t + 2)..n : WrittenLines[i + k] = ReadLines[i]

\* a prepend of two lines to a section that has lines of its own and is
\* neither first nor last in the document
C11_Witness ==
    /\ Prepended
    /\ result.status = "ok"
    /\ found.line > 0
    /\ boundary_line > found.line + 1
    /\ Len(SplitNL(StripSet(args.content, {NL}))) > 1

Located == route = "located" /\ pc \in {"put", "done"}

\* C12: after a located append, prepend or replace, the target located in
\* the headings parsed from the document written is the heading located
\* before the edit: same line, same level.
C12_RelocatedSame ==
    Located =>
        LET again == find_heading_in_structure(parse_heading_structure(new_content),
                                               args.target)
        IN /\ again # None
           /\ again.line = found.line
           /\ again.level = found.level

\* the edit put a second heading with the target's name into the document,
\* below a heading that is not the first line
C12_Witness ==
    /\ Located
    /\ pc = "done"
    /\ result.status = "ok"
    /\ found.line > 0
    /\ Cardinality({h \in Range(parse_heading_structure(vault[args.filepath])) :
                        h.text = found.text})
         > Cardinality({h \in Range(ReadHeadings) : h.text = found.text})

\* the successful reads of the document, as positions in the log
DocReads == {i \in 1..Len(log) :
                log[i].method = "GET" /\ log[i].path = args.filepath /\ log[i].ok}
Max(S) == CHOOSE x \in S : \A y \in S : x >= y
\* the external writes made after the read that current_content holds
AfterSnapshot == {j \in 1..Len(external) :
                     DocReads # {} /\ external[j].at >= Max(DocReads)}
Written == pc = "done" /\ log # <<>> /\ log[Len(log)].method = "PUT" /\ log[Len(log)].ok
Marks(doc) == Cardinality({i \in 1..Len(SplitNL(doc)) : SplitNL(doc)[i] = ExternalMark})
\* what the call writes, as a function of the text it read
FromSnapshot ==
    CASE route = "located" ->
             PatchedContent(current_content, args.operation,
                            find_heading_in_structure(ReadHeadings, args.target),
                            args.content)
      [] route = "appended" -> AppendedAtEnd(current_content, args.target, args.content)
      [] route = "positioned" ->
             InsertedContent(current_content, final_heading(args.target), args.content,
                             find_insertion_point(ReadHeadings,
                                                  parse_heading_structure(vault[template]),
                                                  final_heading(args.target),
                                                  heading_level(args.target)),
                             heading_level(args.target))

Gets == {i \in 1..Len(log) : log[i].method = "GET"}

\* C14: a patch of a heading reads the document once, issues at most one
\* more read, two reads at most in all, and every read comes before the
\* write.
C14_OneDocumentRead ==
    args.target_type = "heading" =>
        /\ Cardinality({i \in Gets : log[i].path = args.filepath}) <= 1
        /\ (pc = "done" /\ log[1].ok =>
               Cardinality({i \in Gets : log[i].path = args.filepath}) = 1)
        /\ Cardinality(Gets) <= 2
        /\ \A i \in Gets, j \in Puts : i < j

TargetText == final_heading(args.target)
TargetLevel == heading_level(args.target)
TemplateHeadings == parse_heading_structure(vault[template])
WrittenHeadings == parse_heading_structure(new_content)
\* the first position of (text, level) in the headings hs, or 0
PositionIn(hs, text, level) ==
    LET S == {i \in 1..Len(hs) : hs[i].text = text /\ hs[i].level = level}
    IN IF S = {} THEN 0 ELSE Min(S)
TargetInTemplate == PositionIn(TemplateHeadings, TargetText, TargetLevel)
\* the template headings that bound the target: the nearest one after it, and
\* the nearest one before it, of the target's level or shallower (0: none)
NearestFollowing ==
    LET S == {i \in (TargetInTemplate + 1)..Len(TemplateHeadings) :
                 TemplateHeadings[i].level <= TargetLevel}
    IN IF S = {} THEN 0 ELSE Min(S)
NearestPreceding ==
    LET S == {i \in 1..(TargetInTemplate - 1) :
                 TemplateHeadings[i].level <= TargetLevel}
    IN IF S = {} THEN 0 ELSE Max(S)
\* where the template heading i stands in the document read (0: nowhere)
InDocument(i) ==
    IF i = 0 THEN 0
    ELSE PositionIn(ReadHeadings, TemplateHeadings[i].text, TemplateHeadings[i].level)

\* the creation path has read the template and computed the document to write
Placed ==
    /\ route \in {"positioned", "appended"}
    /\ log # <<>>
    /\ log[Len(log)] = Request("GET", template, TRUE)

\* the headings read are of one level, and a subsequence without repetition
\* of the template's headings, which do not repeat either
SubsequenceOfTemplate ==
    LET pos == [i \in 1..Len(ReadHeadings) |->
                   PositionIn(TemplateHeadings, ReadHeadings[i].text, ReadHeadings[i].level)]
    IN /\ \A i, j \in 1..Len(TemplateHeadings) :
              i < j => TemplateHeadings[i].text # TemplateHeadings[j].text
                       \/ TemplateHeadings[i].level # TemplateHeadings[j].level
       /\ \A i \in 1..Len(pos) : pos[i] # 0
       /\ \A i, j \in 1..Len(pos) :
              i < j => pos[i] < pos[j] /\ ReadHeadings[i].level = ReadHeadings[j].level

\* the k-th heading written is the new one: the others are the headings read
IsNew(k) ==
    /\ Len(WrittenHeadings) = Len(ReadHeadings) + 1
    /\ WrittenHeadings[k].level = TargetLevel
    /\ StartsWith(WrittenHeadings[k].text, TargetText)
    /\ \A i \in 1..Len(ReadHeadings) :
          LET g == WrittenHeadings[IF i < k THEN i ELSE i + 1]
          IN g.text = ReadHeadings[i].text /\ g.level = ReadHeadings[i].level

\* the new heading stands after the headings the template has before the
\* target and before those the template has after it
KeepsTemplateOrder ==
    \E k \in 1..Len(WrittenHeadings) :
        /\ IsNew(k)
        /\ \A i \in 1..Len(WrittenHeadings) :
              LET q == PositionIn(TemplateHeadings, WrittenHeadings[i].text,
                                  WrittenHeadings[i].level)
              IN i # k => (q < TargetInTemplate => i < k) /\ (q > TargetInTemplate => i > k)

\* C15 as stated: with the target in the template and the document's headings
\* a same-level subsequence of the template's, the document computed keeps
\* the template's order around the new heading.
C15_TemplateOrderKept ==
    Placed /\ TargetInTemplate # 0 /\ SubsequenceOfTemplate => KeepsTemplateOrder

\* C15 amended: the order is kept when the nearest template heading after the
\* target, or the nearest one before it, of the target's level or shallower,
\* is in the document; when neither is, the new heading is the last heading
\* of the document computed.
C15_OrderKeptNextToAnchor ==
    Placed /\ TargetInTemplate # 0 /\ SubsequenceOfTemplate =>
        IF InDocument(NearestFollowing) # 0 \/ InDocument(NearestPreceding) # 0
        THEN KeepsTemplateOrder
        ELSE IsNew(Len(WrittenHeadings))

\* the new heading went between two headings of the document, next to the
\* one the template has before it, the one the template has after it being
\* absent
C15_Witness ==
    /\ Placed
    /\ TargetInTemplate # 0
    /\ SubsequenceOfTemplate
    /\ InDocument(NearestFollowing) = 0
    /\ InDocument(NearestPreceding) # 0
    /\ \E k \in 2..(Len(WrittenHeadings) - 1) : IsNew(k)

InsertionPoint ==
    find_insertion_point(ReadHeadings, TemplateHeadings, TargetText, TargetLevel)
\* the lines _insert_heading_at_position puts in as one list element
NewSection ==
    SplitNL(<<NL>> \o Hashes(TargetLevel) \o <<SP>> \o TargetText \o args.content \o <<NL>>)

\* C16: with the target in the template and the nearest template heading
\* after it of the target's level or shallower also in the document, the
\* insertion point is the line of the first heading of the document with
\* that text and level, and the document computed is the one read with the
\* new section put in just before that line.
C16_ForwardAnchor ==
    Placed /\ TargetInTemplate # 0 /\ InDocument(NearestFollowing) # 0 =>
        LET h == ReadHeadings[InDocument(NearestFollowing)]
        IN /\ InsertionPoint = h.line
           /\ route = "positioned"
           /\ Take(WrittenLines, h.line) = Take(ReadLines, h.line)
           /\ SubSeq(WrittenLines, h.line + 1, h.line + Len(NewSection)) = NewSection
           /\ Drop(WrittenLines, h.line + Len(NewSection)) = Drop(ReadLines, h.line)

\* the template has a deeper heading between the target and the anchor, and
\* the document has the anchor twice
C16_Witness ==
    /\ Placed
    /\ TargetInTemplate # 0
    /\ NearestFollowing > TargetInTemplate + 1
    /\ InDocument(NearestFollowing) # 0
    /\ \E i \in 1..Len(ReadHeadings) :
          /\ i > InDocument(NearestFollowing)
          /\ ReadHeadings[i].text = TemplateHeadings[NearestFollowing].text
          /\ ReadHeadings[i].level = TemplateHeadings[NearestFollowing].level
    /\ route = "positioned"

\* C17: when the forward anchor is not in the document, the insertion point
\* depends on the nearest template heading P before the target with level <=
\* the target level alone: with P in the document, first at line p, it is the
\* line of the first heading after p with level <= P's level, or None when
\* there is none; with P not in the document, or no such P, it is None.
C17_BackwardAnchor ==
    Placed /\ TargetInTemplate # 0 /\ InDocument(NearestFollowing) = 0 =>
        IF InDocument(NearestPreceding) = 0 THEN InsertionPoint = NoLine
        ELSE LET P == ReadHeadings[InDocument(NearestPreceding)]
                 Later == {h.line : h \in {g \in Range(ReadHeadings) :
                              g.line > P.line /\ g.level <= P.level}}
             IN InsertionPoint = IF Later = {} THEN NoLine ELSE Min(Later)

\* P is not in the document, a template heading before P is, and the new
\* heading went to the end
C17_Witness ==
    /\ Placed
    /\ TargetInTemplate # 0
    /\ InDocument(NearestFollowing) = 0
    /\ NearestPreceding # 0
    /\ InDocument(NearestPreceding) = 0
    /\ \E i \in 1..(NearestPreceding - 1) :
          TemplateHeadings[i].level <= TargetLevel /\ InDocument(i) # 0
    /\ route = "appended"

\* C18: when no template heading has the target's text and level, the
\* insertion point is None whatever the document holds, and the document
\* computed is the document read, trimmed, with the new heading and the
\* content at its end.
C18_NotInTemplate ==
    Placed /\ TargetInTemplate = 0 =>
        /\ InsertionPoint = NoLine
        /\ route = "appended"
        /\ StartsWith(new_content, RStripSet(current_content, Whitespace))
        /\ EndsWith(new_content,
                    Hashes(TargetLevel) \o <<SP>> \o TargetText \o args.content)
        /\ Len(WrittenHeadings) = Len(ReadHeadings) + 1

\* the template has the target's text at another level, and the document
\* holds headings of the template
C18_Witness ==
    /\ Placed
    /\ TargetInTemplate = 0
    /\ \E h \in Range(TemplateHeadings) : h.text = TargetText
    /\ \E h \in Range(ReadHeadings) : PositionIn(TemplateHeadings, h.text, h.level) # 0
    /\ Len(ReadHeadings) > 1

\* _create_heading_and_append has read the document and settled the template
Resolved ==
    /\ args.target_type = "heading"
    /\ args.use_template
    /\ Cardinality(DocReads) = 2
    /\ pc # "probe"

HasDirectory == \E i \in 1..Len(args.filepath) : args.filepath[i] = "/"
\* the reads of the folder convention's template, as positions in the log:
\* the first of them is the probe
ConventionReads == {i \in Gets : log[i].path = ConventionTemplate(args.filepath)}

\* C19: once the creation path with use_template has settled the template, it
\* is the template_path argument if one is given; else the path the
\* frontmatter's template value names; else Templates/<directory>.md if the
\* path has a directory and the read of that file succeeded; else none. With
\* an argument or a frontmatter value, the folder convention's file is never
\* requested, and without a directory nothing but the document and the
\* template is.
C19_TemplatePriority ==
    Resolved =>
        LET fm == FrontmatterTemplate(current_content)
        IN /\ template =
                 IF args.template_path # NoPath THEN args.template_path
                 ELSE IF fm # NoPath
                      THEN IF StartsWith(fm, TemplatesDir) THEN fm ELSE TemplatesDir \o fm
                 ELSE IF HasDirectory /\ ConventionReads # {}
                         /\ log[Min(ConventionReads)].ok
                      THEN ConventionTemplate(args.filepath)
                 ELSE NoPath
           /\ (args.template_path # NoPath \/ fm # NoPath => ConventionReads = {})
           /\ \A i \in Gets : log[i].path \in {args.filepath, template}
                                \/ (i = 3 /\ HasDirectory /\ ConventionReads # {})

\* the call names a template, the document's frontmatter names another, the
\* file is in a folder whose template exists, and the call's template is read
C19_Witness ==
    /\ Resolved
    /\ args.template_path # NoPath
    /\ FrontmatterTemplate(current_content) # NoPath
    /\ TemplateFromFrontmatter(current_content) # args.template_path
    /\ HasDirectory
    /\ Readable(ConventionTemplate(args.filepath))
    /\ log[Len(log)] = Request("GET", args.template_path, TRUE)

\* a read of a template, the probe of the folder convention included, failed
TemplateUnreadable ==
    /\ args.target_type = "heading"
    /\ \E i \in Gets : log[i].path # args.filepath /\ ~log[i].ok

\* C20: after a failed read of the template (named by the call, named by the
\* frontmatter, or probed by the folder convention) the call goes on: the
\* document to write is the document read, trimmed, with the new heading and
\* the content at its end; the call ends in an error only if its write
\* failed, and with the write done it returns success and the document is
\* the one computed.
C20_UnreadableTemplateFallsBack ==
    TemplateUnreadable =>
        /\ pc \in {"put", "done"}
        /\ route = "appended"
        /\ StartsWith(new_content, RStripSet(current_content, Whitespace))
        /\ EndsWith(new_content,
                    Hashes(TargetLevel) \o <<SP>> \o TargetText \o args.content)
        /\ Cardinality(Puts) = (IF pc = "done" THEN 1 ELSE 0)
        /\ (pc = "done" =>
               IF log[Len(log)].ok
               THEN result = Success /\ vault[args.filepath] = new_content
               ELSE result = TransportError /\ vault[args.filepath] = current_content)

\* the template the call names does not exist, and the call has succeeded
C20_Witness ==
    /\ TemplateUnreadable
    /\ args.template_path # NoPath
    /\ vault[args.template_path] = Missing
    /\ pc = "done"
    /\ result = Success
    /\ vault[args.filepath] = new_content
    /\ ReadHeadings # <<>>

\* the call is past the second read of the document
Creating == args.target_type = "heading" /\ Cardinality(DocReads) = 2

\* C21: with use_template false no template is resolved and nothing but the
\* document is read, whatever template_path and the frontmatter say, and the
\* creation path computes the document read, trimmed, with the new heading
\* and the content at its end.
C21_TemplateDisabled ==
    args.target_type = "heading" /\ ~args.use_template =>
        /\ template = NoPath
        /\ pc \notin {"probe", "read_template", "put_positioned"}
        /\ \A i \in Gets : log[i].path = args.filepath
        /\ (Creating =>
               /\ route = "appended"
               /\ StartsWith(new_content, RStripSet(current_content, Whitespace))
               /\ EndsWith(new_content,
                           Hashes(TargetLevel) \o <<SP>> \o TargetText \o args.content))

\* the call names a template that would have given an insertion point, and
\* the heading was written at the end
C21_Witness ==
    /\ Creating
    /\ ~args.use_template
    /\ args.template_path # NoPath
    /\ Readable(args.template_path)
    /\ find_insertion_point(ReadHeadings, parse_heading_structure(vault[args.template_path]),
                            TargetText, TargetLevel) # NoLine
    /\ pc = "done"
    /\ result = Success

\* C22: the document the fallback of the creation path computes is the
\* document read up to its last character that is not whitespace, then an
\* empty line, then '#' level times, a space and the heading text, then the
\* content as supplied, with nothing after it; a write that succeeds
\* leaves exactly this document.
C22_FallbackFormat ==
    route = "appended" =>
        \E n \in 0..Len(current_content) :
            /\ \A i \in (n + 1)..Len(current_content) : current_content[i] \in Whitespace
            /\ n > 0 => current_content[n] \notin Whitespace
            /\ new_content = Take(current_content, n) \o <<NL, NL>>
                                 \o Hashes(TargetLevel) \o <<SP>> \o TargetText
                                 \o args.content
            /\ (Written => vault[args.filepath] = new_content)

\* the document read ends in whitespace and the fallback's write succeeded
C22_Witness ==
    /\ route = "appended"
    /\ Written
    /\ current_content # RStripSet(current_content, Whitespace)
    /\ ReadHeadings # <<>>
    /\ vault[args.filepath] = new_content

Patches == {i \in 1..Len(log) : log[i].method = "PATCH"}

\* C23: a patch of a block or of a frontmatter field issues one PATCH request
\* for the file and nothing else, neither a read nor a write of the document,
\* whatever create_heading_if_missing, template_path and use_template are; a
\* patch of a heading issues no PATCH request.
C23_RemotePatchOnly ==
    /\ args.target_type \in {"block", "frontmatter"} =>
           /\ Gets = {} /\ Puts = {}
           /\ Len(log) <= 1
           /\ (pc = "done" => /\ Len(log) = 1
                              /\ log[1].method = "PATCH"
                              /\ log[1].path = args.filepath
                              /\ (result = Success <=> log[1].ok))
           /\ route = "none" /\ template = NoPath
    /\ args.target_type = "heading" => Patches = {}

\* a patch of a block done with every option of the heading engine set
C23_Witness ==
    /\ args.target_type = "block"
    /\ args.create_heading_if_missing
    /\ args.use_template
    /\ args.template_path # NoPath
    /\ pc = "done"
    /\ result = Success
    /\ Patches = {1}

\* C24: for a target without "::" the heading located is the first heading
\* of the document whose text is the target, character for character,
\* whatever its level; none is located exactly when no heading has that text.
C24_SimpleLocate ==
    FirstReadDone /\ Len(Segments) = 1 =>
        LET hs == ReadHeadings
            Same == {i \in 1..Len(hs) : hs[i].text = args.target}
        IN /\ (found = None <=> Same = {})
           /\ (Same # {} => found = hs[Min(Same)])

\* a wiki-link heading of level 1 is located below other headings, and the
\* document has it a second time
C24_Witness ==
    /\ FirstReadDone
    /\ Len(Segments) = 1
    /\ found # None
    /\ found.text = WikiLink(<<"a">>)
    /\ found.line > 0
    /\ ReadHeadings[1].line < found.line
    /\ \E h \in Range(ReadHeadings) : h.line > found.line /\ h.text = found.text

\* the template was settled by _get_template_for_file
ResolvedForFile == Resolved /\ args.template_path = NoPath

\* C25: what _get_template_for_file returns is None or a path under
\* "Templates/"; from a frontmatter value that starts with "Templates/" it is
\* that value, from any other value it is the value behind one "Templates/";
\* and with a frontmatter value the template is not read before
\* _get_template_for_file returns: the only read of it is the caller's.
C25_TemplatesPrefix ==
    ResolvedForFile =>
        LET fm == FrontmatterTemplate(current_content)
            reads == {i \in Gets : log[i].path = template}
        IN /\ template = NoPath \/ StartsWith(template, TemplatesDir)
           /\ (fm # NoPath =>
                  /\ IF StartsWith(fm, TemplatesDir) THEN template = fm
                     ELSE /\ template = TemplatesDir \o fm
                          /\ ~StartsWith(Drop(template, Len(TemplatesDir)), TemplatesDir)
                  /\ EndsWith(template, fm)
                  /\ Cardinality(reads) <= 1
                  /\ (pc = "read_template" => reads = {} /\ Len(log) = 2))

\* the frontmatter names its template with the "Templates/" prefix, the file
\* is in a folder, and the template was read once
C25_Witness ==
    /\ ResolvedForFile
    /\ StartsWith(FrontmatterTemplate(current_content), TemplatesDir)
    /\ template = FrontmatterTemplate(current_content)
    /\ HasDirectory
    /\ pc = "done"
    /\ result = Success
    /\ Cardinality({i \in Gets : log[i].path = template /\ log[i].ok}) = 1

\* a line of 1 to 6 "#", then one or more spaces, then text that is not empty
IsHeadingLine(line) ==
    LET k == RunLen(line, {HASH})
        w == RunLen(Drop(line, k), {SP})
    IN k \in 1..MaxHeadingLevel /\ w >= 1 /\ Drop(line, k + w) # <<>>

\* C26: the headings parsed from the document are, in increasing order of
\* line, one for each line of 1 to 6 "#", spaces and text that is not
\* empty, and none for any other line; the level is the number of "#", the
\* text is the trailing text trimmed and is not empty, and the line index is
\* below the line count.
C26_ParserInvariants ==
    LET lines == SplitNL(vault[args.filepath])
        hs == parse_heading_structure(vault[args.filepath])
    IN /\ \A i \in 1..Len(lines) :
              Cardinality({j \in 1..Len(hs) : hs[j].line = i - 1})
                  = (IF IsHeadingLine(lines[i]) THEN 1 ELSE 0)
       /\ \A j \in 1..Len(hs) :
              /\ hs[j].line \in 0..(Len(lines) - 1)
              /\ hs[j].level = RunLen(lines[hs[j].line + 1], {HASH})
              /\ hs[j].level \in 1..MaxHeadingLevel
              /\ hs[j].text # <<>>
              /\ hs[j].text = StripSet(Drop(lines[hs[j].line + 1], hs[j].level), Whitespace)
              /\ \A k \in 1..(j - 1) : hs[k].line < hs[j].line

(* ---------------------------------------------------------------------- *)
(* patch_content called a second time with the same arguments              *)
(* ---------------------------------------------------------------------- *)

\* the caller repeats a call that wrote the document: a new call with the
\* same arguments starts on the vault the first one left, with fresh locals
CallAgain ==
    /\ pc = "done"
    /\ result = Success
    /\ Written
    /\ Cardinality(Puts) = 1
    /\ pc' = "start"
    /\ current_content' = <<>>
    /\ found' = None
    /\ boundary_line' = NoLine
    /\ template' = NoPath
    /\ new_content' = <<>>
    /\ route' = "none"
    /\ result' = Running
    /\ UNCHANGED <<vault, args, log, external>>

NextAgain ==
    \/ PatchHeadingRead
    \/ CreateRead
    \/ ReadTemplate
    \/ PutPositioned
    \/ PutContent
    \/ CallAgain

SpecAgain == InitCreate /\ [][NextAgain]_vars

\* the edits of a located heading, called twice
NextEditAgain ==
    \/ PatchHeadingRead
    \/ PutContent
    \/ CallAgain

SpecEditAgain == InitEdit /\ [][NextEditAgain]_vars

\* the second call has read the document the first call wrote
SecondRead ==
    \E i \in Puts : \E j \in (i + 1)..Len(log) :
        log[j] = Request("GET", args.filepath, TRUE)

\* the first call took the creation path: it read the document twice
FirstCreated ==
    Puts # {} /\ Cardinality({k \in 1..Min(Puts) :
                                log[k] = Request("GET", args.filepath, TRUE)}) = 2

\* C27: a call that follows a successful creation of the same target finds
\* the heading the first call created: it takes the located route and
\* never the creation route.
C27_SecondCallLocates ==
    SecondRead /\ FirstCreated => found # None /\ pc \notin {"create", "read_template", "put_positioned"}

\* the second call, a replace, is about to write
SecondReplace ==
    /\ args.operation = "replace"
    /\ pc = "put"
    /\ route = "located"
    /\ Cardinality(Puts) = 1

\* the content holds no heading that would end the located section
ContentStaysInSection ==
    \A h \in Range(parse_heading_structure(StripSet(args.content, {NL}))) :
        h.level > found.level

\* C28 as stated: a second replace with the same target and content writes
\* the document the first one wrote.
C28_ReplaceIdempotent ==
    [][SecondReplace /\ pc' = "done" /\ log'[Len(log')].ok => vault' = vault]_vars

\* C28 amended: a second replace with the same target and content writes the
\* document the first one wrote, when the content holds no heading of the
\* located heading's level or shallower.
C28_ReplaceIdempotentInSection ==
    [][SecondReplace /\ ContentStaysInSection /\ pc' = "done" /\ log'[Len(log')].ok
           => vault' = vault]_vars

\* a second replace has written, with content of two lines inside a section
\* that another section follows
C28_Witness ==
    /\ Replaced
    /\ Cardinality({i \in Puts : log[i].ok}) = 2
    /\ ContentStaysInSection
    /\ Len(SplitNL(StripSet(args.content, {NL}))) > 1
    /\ boundary_line < Len(ReadLines)

\* the creation path has computed the document it writes
Spliced == route \in {"positioned", "appended"} /\ pc \in {"put", "put_positioned", "done"}

\* the headings of the document about to be written that carry the target's name
TargetHeadings ==
    {h \in Range(parse_heading_structure(new_content)) : h.text = TargetText}

\* C29: on the creation path the document the new heading is spliced into
\* does not hold the target heading, and the document written holds the
\* heading of a target without parents at most once, also when another
\* client writes the target heading while the call runs.
C29_TargetAbsentWhenSpliced ==
    Spliced =>
        /\ find_heading_in_structure(parse_heading_structure(current_content),
                                     args.target) = None
        /\ (Len(SplitColons(args.target)) = 1 => Cardinality(TargetHeadings) <= 1)

\* C30: an insertion point that is not None is the line of a heading of the
\* document read, and the document computed is the one read with the new
\* section put in as a whole just before that heading line: the lines before
\* it and from it on are kept as they are.
C30_InsertionPointIsHeadingLine ==
    Placed /\ InsertionPoint # NoLine =>
        /\ \E h \in Range(ReadHeadings) : h.line = InsertionPoint
        /\ InsertionPoint < Len(ReadLines)
        /\ HeadingMatch(ReadLines[InsertionPoint + 1])
        /\ route = "positioned"
        /\ WrittenLines = Take(ReadLines, InsertionPoint) \o NewSection
                              \o Drop(ReadLines, InsertionPoint)
        /\ WrittenLines[InsertionPoint + Len(NewSection) + 1] = ReadLines[InsertionPoint + 1]

\* the insertion point comes from the heading before the target, whose
\* section has body text that ends just above the insertion point
C30_Witness ==
    /\ Placed
    /\ TargetInTemplate # 0
    /\ InDocument(NearestFollowing) = 0
    /\ InsertionPoint # NoLine
    /\ InsertionPoint > 1
    /\ ReadLines[InsertionPoint] = <<"x">>

====
